---- MODULE Spec2Model ----
(***************************************************************************)
(* Inventory-and-sales pallet (pallets/template/src/lib.rs): the keyed     *)
(* stores Products and Sales, the allocators NextProductId and             *)
(* NextSaleCode, and the eleven dispatchables of #[pallet::call].          *)
(*                                                                         *)
(* Every dispatchable is written twice: `<name>_body` is the function body *)
(* as it stands in lib.rs, acting on a storage overlay; `<name>` is the    *)
(* dispatchable as the #[pallet::call] macro emits it, i.e. the body run   *)
(* inside `with_storage_layer`, which commits the overlay on Ok and        *)
(* discards it on Err.                                                     *)
(*                                                                         *)
(* u64 arithmetic is modelled at a reduced width: U64Max stands for        *)
(* u64::MAX, and checked_sub / checked_mul / checked_add fail relative to  *)
(* it exactly as the Rust operations fail relative to 2^64 - 1. The        *)
(* unchecked `product_id + 1` and `sale_code + 1` stay below it: the       *)
(* allocating calls are offered only below MaxProducts and MaxSales.       *)
(*                                                                         *)
(* Every call is made with a signed origin (ensure_signed succeeds).       *)
(***************************************************************************)
EXTENDS Integers, Sequences, FiniteSets, TLC

VARIABLES
    Products,        \* StorageMap u64 -> Product (a function on the stored ids)
    Sales,           \* StorageMap u64 -> Sale (a function on the stored codes)
    NextProductId,   \* StorageValue u64, ValueQuery
    NextSaleCode,    \* StorageValue u64, ValueQuery
    last,            \* the last call: its name, arguments, result, events, key
    addedCount,      \* number of add_product calls that returned Ok so far
    registeredCount, \* number of register_sale calls that returned Ok so far
    removedProducts, \* ids on which remove_product has returned Ok
    removedSales,    \* codes on which remove_sale has returned Ok
    stockBefore,     \* id -> the stock it was added with, for each stored id on
                     \* which update_product has not returned Ok
    sold             \* id -> the amount the lines of the register_sale calls
                     \* that returned Ok asked of it, for the same ids

vars == <<Products, Sales, NextProductId, NextSaleCode, last,
          addedCount, registeredCount, removedProducts, removedSales,
          stockBefore, sold>>

\* ------------------------------------------------------------------ bounds

\* stand-in for u64::MAX (reduced word width)
U64Max == 3
\* add_product is offered while NextProductId < MaxProducts
MaxProducts == 2
\* register_sale is offered while NextSaleCode < MaxSales
MaxSales == 2
\* longest list of ItemSale lines offered to register_sale
MaxLines == 2
\* largest amount on an offered line
MaxAmount == 2
\* longest list of lines offered to register_sale under SpecSale
MaxSaleLines == 3
\* under SpecSale register_sale is offered while NextSaleCode < MaxEngineSales
MaxEngineSales == 1

\* ------------------------------------------------------------ Option, maps

None == <<>>
Some(x) == <<x>>
is_some(o) == o # None
unwrap(o) == o[1]

\* a presence test that is never made: every key counts as present
contains_key_unchecked(m, k) == TRUE

\* StorageMap::insert / remove / contains_key / get on a function
map_insert(m, k, v) == [x \in (DOMAIN m) \cup {k} |-> IF x = k THEN v ELSE m[x]]
map_remove(m, k) == [x \in (DOMAIN m) \ {k} |-> m[x]]
contains_key(m, k) == k \in DOMAIN m
map_get(m, k) == IF k \in DOMAIN m THEN Some(m[k]) ELSE None

EmptyMap == [x \in {} |-> 0]

\* a subtraction that also refuses to take the whole of a
checked_sub_off_by_one(a, b) == IF b >= a THEN None ELSE Some(a - b)

\* an addition that forgets the running total
checked_add_forgets_total(a, b) == IF b > U64Max THEN None ELSE Some(b)

\* u64::checked_sub, checked_mul, checked_add
\* a subtraction that stops at zero instead of failing
checked_sub_saturating(a, b) == Some(IF b > a THEN 0 ELSE a - b)

checked_sub(a, b) == IF b > a THEN None ELSE Some(a - b)
\* a multiplication that wraps around instead of failing
checked_mul_wrapping(a, b) == Some((a * b) % (U64Max + 1))

checked_mul(a, b) == IF a * b > U64Max THEN None ELSE Some(a * b)
checked_add(a, b) == IF a + b > U64Max THEN None ELSE Some(a + b)

\* a membership test that never finds the element
vec_contains_never(v, x) == FALSE

\* Vec::contains
vec_contains(v, x) == \E i \in 1..Len(v) : v[i] = x

\* -------------------------------------------------------------------- Date

\* struct Date { day, month, year }: a struct literal performs no validation
Date(day, month, year) == [day |-> day, month |-> month, year |-> year]

\* a constructor that validates nothing
Date_new_unchecked(day, month, year) == Some(Date(day, month, year))

\* a validation that leaves the year unchecked
Date_new_any_year(day, month, year) ==
    IF ~(day \in 1..31) \/ ~(month \in 1..12)
    THEN None
    ELSE Some(Date(day, month, year))

\* a validation that rejects the year 1000 as well
Date_new_rejects_1000(day, month, year) ==
    IF ~(day \in 1..31) \/ ~(month \in 1..12) \/ year <= 1000
    THEN None
    ELSE Some(Date(day, month, year))

\* Date::new: Err("Invalid date") is None, Ok(Self{..}) is Some(date)
Date_new(day, month, year) ==
    IF ~(day \in 1..31) \/ ~(month \in 1..12) \/ year < 1000
    THEN None
    ELSE Some(Date(day, month, year))

\* ------------------------------------------------------------ storage, events

\* the storage a dispatchable sees: the four storage items and the events
\* deposited so far by the running call
Storage(p, s, np, ns, ev) ==
    [Products |-> p, Sales |-> s, NextProductId |-> np, NextSaleCode |-> ns,
     Events |-> ev]

Event(kind, v) == [kind |-> kind, v |-> v]
deposit_event(st, e) == [st EXCEPT !.Events = Append(@, e)]

\* DispatchResult together with the overlay the body leaves behind; key is the
\* id or code the body allocated (product_id, sale_code), None when it did not
Outcome(st, result, key) == [store |-> st, result |-> result, key |-> key]

\* a dispatchable run without a storage layer: the overlay is kept on Err too
no_storage_layer(pre, out) == out

\* the macro-emitted wrapper: Ok commits the overlay, Err rolls it back
with_storage_layer(pre, out) ==
    IF out.result = "Ok" THEN out ELSE Outcome(pre, out.result, out.key)

\* an id taken from the number of stored products instead of the allocator
next_product_id_by_count(st) == Cardinality(DOMAIN st.Products)

\* the getters #[pallet::getter(fn next_product_id)] and (fn next_sale_code)
next_product_id(st) == st.NextProductId
next_sale_code(st) == st.NextSaleCode

\* ------------------------------------------------------------------ records

\* a product built with stock and price exchanged
Product_stock_price_swapped(name, id, stock, price, amount_to_restock, restock_date, category) ==
    [name |-> name, id |-> id, stock |-> price, price |-> stock,
     amount_to_restock |-> amount_to_restock, restock_date |-> restock_date,
     category |-> category]

Product(name, id, stock, price, amount_to_restock, restock_date, category) ==
    [name |-> name, id |-> id, stock |-> stock, price |-> price,
     amount_to_restock |-> amount_to_restock, restock_date |-> restock_date,
     category |-> category]

Sale(seller, code, products, value, date, payment_method) ==
    [seller |-> seller, code |-> code, products |-> products, value |-> value,
     date |-> date, payment_method |-> payment_method]

ItemSale(product_id, amount) == [product_id |-> product_id, amount |-> amount]

\* ----------------------------------------------------- Product dispatchables

\* add_product without the validation of restock_date
add_product_body_unvalidated(st, name, stock, price, amount_to_restock, restock_date, category) ==
    LET product_id == next_product_id(st)
        product == Product(name, product_id, stock, price, amount_to_restock,
                           restock_date, category)
        st1 == [st EXCEPT !.Products = map_insert(@, product_id, product)]
        st2 == [st1 EXCEPT !.NextProductId = product_id + 1]
    IN  Outcome(deposit_event(st2, Event("ProductAdded", product_id)),
                "Ok", Some(product_id))

\* add_product without the NextProductId::put
add_product_body_keeps_next_id(st, name, stock, price, amount_to_restock, restock_date, category) ==
    LET validated == Date_new(restock_date.day, restock_date.month, restock_date.year)
    IN  IF ~is_some(validated)
        THEN Outcome(st, "InvalidDate", None)
        ELSE
          LET product_id == next_product_id(st)
              product == Product(name, product_id, stock, price, amount_to_restock,
                                 unwrap(validated), category)
              st1 == [st EXCEPT !.Products = map_insert(@, product_id, product)]
              st3 == deposit_event(st1, Event("ProductAdded", product_id))
          IN  Outcome(st3, "Ok", Some(product_id))

add_product_body(st, name, stock, price, amount_to_restock, restock_date, category) ==
    LET validated == Date_new(restock_date.day, restock_date.month, restock_date.year)
    IN  IF ~is_some(validated)
        THEN Outcome(st, "InvalidDate", None)
        ELSE
          LET product_id == next_product_id(st)
              product == Product(name, product_id, stock, price, amount_to_restock,
                                 unwrap(validated), category)
              st1 == [st EXCEPT !.Products = map_insert(@, product_id, product)]
              st2 == [st1 EXCEPT !.NextProductId = product_id + 1]
              st3 == deposit_event(st2, Event("ProductAdded", product_id))
          IN  Outcome(st3, "Ok", Some(product_id))

\* a lookup that takes the record out of the map (StorageMap::take)
get_product_body_takes(st, id) ==
    LET found == map_get(st.Products, id)
    IN  IF is_some(found)
        THEN Outcome(deposit_event([st EXCEPT !.Products = map_remove(@, id)],
                                   Event("ProductGotten", unwrap(found))), "Ok", None)
        ELSE Outcome(st, "ProductNotFound", None)

get_product_body(st, id) ==
    LET found == map_get(st.Products, id)
    IN  IF is_some(found)
        THEN Outcome(deposit_event(st, Event("ProductGotten", unwrap(found))), "Ok", None)
        ELSE Outcome(st, "ProductNotFound", None)

\* a filter that also keeps the products standing at their threshold
products_to_restock_at_threshold(st) ==
    {st.Products[k] : k \in {x \in DOMAIN st.Products :
        st.Products[x].stock <= st.Products[x].amount_to_restock}}

\* Products::iter().filter_map(..).collect(): the products kept by the filter
\* (the iteration order of the hashed map is not modelled: a set)
products_to_restock(st) ==
    {st.Products[k] : k \in {x \in DOMAIN st.Products :
        st.Products[x].stock < st.Products[x].amount_to_restock}}

list_products_to_restock_body(st) ==
    Outcome(deposit_event(st, Event("ProductsToRestock", products_to_restock(st))),
            "Ok", None)

list_all_products_body(st) ==
    LET products == {st.Products[k] : k \in DOMAIN st.Products}
    IN  Outcome(deposit_event(st, Event("ProductsListed", products)), "Ok", None)

\* update_product whose stock branch writes the new stock into the price
update_product_body_stock_into_price(st, id, name, stock, price, amount_to_restock, restock_date, category) ==
    LET found == map_get(st.Products, id)
    IN  IF ~is_some(found)
        THEN Outcome(st, "ProductNotFound", None)
        ELSE
          LET p0 == unwrap(found)
              p1 == IF is_some(name) THEN [p0 EXCEPT !.name = unwrap(name)] ELSE p0
              p2 == IF is_some(stock) THEN [p1 EXCEPT !.price = unwrap(stock)] ELSE p1
              p3 == IF is_some(price) THEN [p2 EXCEPT !.price = unwrap(price)] ELSE p2
              p4 == IF is_some(amount_to_restock)
                    THEN [p3 EXCEPT !.amount_to_restock = unwrap(amount_to_restock)]
                    ELSE p3
              new_date == IF is_some(restock_date)
                          THEN Date_new(unwrap(restock_date).day,
                                        unwrap(restock_date).month,
                                        unwrap(restock_date).year)
                          ELSE None
          IN  IF is_some(restock_date) /\ ~is_some(new_date)
              THEN Outcome(st, "InvalidDate", None)
              ELSE
                LET p5 == IF is_some(restock_date)
                          THEN [p4 EXCEPT !.restock_date = unwrap(new_date)]
                          ELSE p4
                    p6 == IF is_some(category)
                          THEN [p5 EXCEPT !.category = unwrap(category)]
                          ELSE p5
                    st1 == [st EXCEPT !.Products = map_insert(@, id, p6)]
                IN  Outcome(deposit_event(st1, Event("ProductUpdated", id)), "Ok", None)

update_product_body(st, id, name, stock, price, amount_to_restock, restock_date, category) ==
    LET found == map_get(st.Products, id)
    IN  IF ~is_some(found)
        THEN Outcome(st, "ProductNotFound", None)
        ELSE
          LET p0 == unwrap(found)
              p1 == IF is_some(name) THEN [p0 EXCEPT !.name = unwrap(name)] ELSE p0
              p2 == IF is_some(stock) THEN [p1 EXCEPT !.stock = unwrap(stock)] ELSE p1
              p3 == IF is_some(price) THEN [p2 EXCEPT !.price = unwrap(price)] ELSE p2
              p4 == IF is_some(amount_to_restock)
                    THEN [p3 EXCEPT !.amount_to_restock = unwrap(amount_to_restock)]
                    ELSE p3
              new_date == IF is_some(restock_date)
                          THEN Date_new(unwrap(restock_date).day,
                                        unwrap(restock_date).month,
                                        unwrap(restock_date).year)
                          ELSE None
          IN  IF is_some(restock_date) /\ ~is_some(new_date)
              THEN Outcome(st, "InvalidDate", None)
              ELSE
                LET p5 == IF is_some(restock_date)
                          THEN [p4 EXCEPT !.restock_date = unwrap(new_date)]
                          ELSE p4
                    p6 == IF is_some(category)
                          THEN [p5 EXCEPT !.category = unwrap(category)]
                          ELSE p5
                    st1 == [st EXCEPT !.Products = map_insert(@, id, p6)]
                IN  Outcome(deposit_event(st1, Event("ProductUpdated", id)), "Ok", None)

\* remove_product that reports the removal and leaves the record stored
remove_product_body_keeps_record(st, id) ==
    IF ~contains_key(st.Products, id)
    THEN Outcome(st, "ProductNotFound", None)
    ELSE Outcome(deposit_event(st, Event("ProductRemoved", id)), "Ok", None)

\* a removal that cascades to the sales that reference the product
remove_product_body_cascades(st, id) ==
    IF ~contains_key(st.Products, id)
    THEN Outcome(st, "ProductNotFound", None)
    ELSE
      LET kept == {c \in DOMAIN st.Sales : ~vec_contains(st.Sales[c].products, id)}
          st1 == [st EXCEPT !.Products = map_remove(@, id),
                            !.Sales = [c \in kept |-> @[c]]]
      IN  Outcome(deposit_event(st1, Event("ProductRemoved", id)), "Ok", None)

remove_product_body(st, id) ==
    IF ~contains_key(st.Products, id)
    THEN Outcome(st, "ProductNotFound", None)
    ELSE
      LET st1 == [st EXCEPT !.Products = map_remove(@, id)]
      IN  Outcome(deposit_event(st1, Event("ProductRemoved", id)), "Ok", None)

\* -------------------------------------------------------- Sale dispatchables

\* the state of the `for item in products` loop of register_sale
LoopState(st, total_value, sale_products, error) ==
    [store |-> st, total_value |-> total_value, sale_products |-> sale_products,
     error |-> error]

\* a loop body that prices the line before it checks the stock
sale_item_prices_first(ls, item) ==
    LET found == map_get(ls.store.Products, item.product_id)
    IN  IF ~is_some(found)
        THEN [ls EXCEPT !.error = "ProductNotFound"]
        ELSE
          LET partial_value == checked_mul(unwrap(found).price, item.amount)
              total == IF is_some(partial_value)
                       THEN checked_add(ls.total_value, unwrap(partial_value))
                       ELSE None
          IN  IF ~is_some(total)
              THEN [ls EXCEPT !.error = "Overflow"]
              ELSE
                LET new_stock == checked_sub(unwrap(found).stock, item.amount)
                IN  IF ~is_some(new_stock)
                    THEN [ls EXCEPT !.error = "InsufficientStock"]
                    ELSE
                      LET product == [unwrap(found) EXCEPT !.stock = unwrap(new_stock)]
                          st1 == [ls.store EXCEPT
                                    !.Products = map_insert(@, item.product_id, product)]
                          sp == IF ~vec_contains(ls.sale_products, item.product_id)
                                THEN Append(ls.sale_products, item.product_id)
                                ELSE ls.sale_products
                      IN  LoopState(st1, unwrap(total), sp, "Ok")

\* one iteration of the loop body on `item`; every `?` leaves the loop with
\* the overlay as written so far
sale_item(ls, item) ==
    LET found == map_get(ls.store.Products, item.product_id)
    IN  IF ~is_some(found)
        THEN [ls EXCEPT !.error = "ProductNotFound"]
        ELSE
          LET new_stock == checked_sub(unwrap(found).stock, item.amount)
          IN  IF ~is_some(new_stock)
              THEN [ls EXCEPT !.error = "InsufficientStock"]
              ELSE
                LET product == [unwrap(found) EXCEPT !.stock = unwrap(new_stock)]
                    st1 == [ls.store EXCEPT
                              !.Products = map_insert(@, item.product_id, product)]
                    sp == IF ~vec_contains(ls.sale_products, item.product_id)
                          THEN Append(ls.sale_products, item.product_id)
                          ELSE ls.sale_products
                    partial_value == checked_mul(product.price, item.amount)
                IN  IF ~is_some(partial_value)
                    THEN LoopState(st1, ls.total_value, sp, "Overflow")
                    ELSE
                      LET total == checked_add(ls.total_value, unwrap(partial_value))
                      IN  IF ~is_some(total)
                          THEN LoopState(st1, ls.total_value, sp, "Overflow")
                          ELSE LoopState(st1, unwrap(total), sp, "Ok")

RECURSIVE sale_loop(_, _, _)
sale_loop(ls, items, i) ==
    IF i > Len(items) \/ ls.error # "Ok"
    THEN ls
    ELSE sale_loop(sale_item(ls, items[i]), items, i + 1)

\* the literal Date::new(3, 2, 2025).unwrap() of register_sale
SaleDate == unwrap(Date_new(3, 2, 2025))

\* register_sale that refuses a list without lines
register_sale_body_refuses_empty(st, seller, products, payment_method) ==
    LET ls == sale_loop(LoopState(st, 0, <<>>, "Ok"), products, 1)
    IN  IF Len(products) = 0
        THEN Outcome(st, "ProductNotFound", None)
        ELSE IF ls.error # "Ok"
        THEN Outcome(ls.store, ls.error, None)
        ELSE
          LET sale_code == next_sale_code(ls.store)
              sale == Sale(seller, sale_code, ls.sale_products, ls.total_value,
                           SaleDate, payment_method)
              st1 == [ls.store EXCEPT !.Sales = map_insert(@, sale_code, sale)]
              st2 == [st1 EXCEPT !.NextSaleCode = sale_code + 1]
          IN  Outcome(deposit_event(st2, Event("SaleRegistered", sale_code)),
                      "Ok", Some(sale_code))

register_sale_body(st, seller, products, payment_method) ==
    LET ls == sale_loop(LoopState(st, 0, <<>>, "Ok"), products, 1)
    IN  IF ls.error # "Ok"
        THEN Outcome(ls.store, ls.error, None)
        ELSE
          LET sale_code == next_sale_code(ls.store)
              sale == Sale(seller, sale_code, ls.sale_products, ls.total_value,
                           SaleDate, payment_method)
              st1 == [ls.store EXCEPT !.Sales = map_insert(@, sale_code, sale)]
              st2 == [st1 EXCEPT !.NextSaleCode = sale_code + 1]
          IN  Outcome(deposit_event(st2, Event("SaleRegistered", sale_code)),
                      "Ok", Some(sale_code))

get_sale_body(st, code) ==
    LET found == map_get(st.Sales, code)
    IN  IF is_some(found)
        THEN Outcome(deposit_event(st, Event("SaleGotten", unwrap(found))), "Ok", None)
        ELSE Outcome(st, "SaleNotFound", None)

list_all_sales_body(st) ==
    LET sales == {st.Sales[k] : k \in DOMAIN st.Sales}
    IN  Outcome(deposit_event(st, Event("SalesListed", sales)), "Ok", None)

\* update_sale that stores a sale built anew from its arguments
update_sale_body_rebuilds_sale(st, code, seller, date, payment_method) ==
    LET found == map_get(st.Sales, code)
    IN  IF ~is_some(found)
        THEN Outcome(st, "SaleNotFound", None)
        ELSE
          LET s0 == unwrap(found)
              new_date == IF is_some(date)
                          THEN Date_new(unwrap(date).day, unwrap(date).month,
                                        unwrap(date).year)
                          ELSE None
          IN  IF is_some(date) /\ ~is_some(new_date)
              THEN Outcome(st, "InvalidDate", None)
              ELSE
                LET s3 == Sale(IF is_some(seller) THEN unwrap(seller) ELSE s0.seller,
                               code, <<>>, 0,
                               IF is_some(date) THEN unwrap(new_date) ELSE s0.date,
                               IF is_some(payment_method) THEN unwrap(payment_method)
                               ELSE s0.payment_method)
                    st1 == [st EXCEPT !.Sales = map_insert(@, code, s3)]
                IN  Outcome(deposit_event(st1, Event("SaleUpdated", code)), "Ok", None)

update_sale_body(st, code, seller, date, payment_method) ==
    LET found == map_get(st.Sales, code)
    IN  IF ~is_some(found)
        THEN Outcome(st, "SaleNotFound", None)
        ELSE
          LET s0 == unwrap(found)
              s1 == IF is_some(seller) THEN [s0 EXCEPT !.seller = unwrap(seller)] ELSE s0
              new_date == IF is_some(date)
                          THEN Date_new(unwrap(date).day, unwrap(date).month,
                                        unwrap(date).year)
                          ELSE None
          IN  IF is_some(date) /\ ~is_some(new_date)
              THEN Outcome(st, "InvalidDate", None)
              ELSE
                LET s2 == IF is_some(date) THEN [s1 EXCEPT !.date = unwrap(new_date)]
                          ELSE s1
                    s3 == IF is_some(payment_method)
                          THEN [s2 EXCEPT !.payment_method = unwrap(payment_method)]
                          ELSE s2
                    st1 == [st EXCEPT !.Sales = map_insert(@, code, s3)]
                IN  Outcome(deposit_event(st1, Event("SaleUpdated", code)), "Ok", None)

\* remove_sale that deposits the event of update_sale
remove_sale_body_wrong_event(st, code) ==
    IF ~contains_key(st.Sales, code)
    THEN Outcome(st, "SaleNotFound", None)
    ELSE
      LET st1 == [st EXCEPT !.Sales = map_remove(@, code)]
      IN  Outcome(deposit_event(st1, Event("SaleUpdated", code)), "Ok", None)

\* a removal that gives a unit back to every stored product of the sale
remove_sale_body_restocks(st, code) ==
    IF ~contains_key(st.Sales, code)
    THEN Outcome(st, "SaleNotFound", None)
    ELSE
      LET sale == st.Sales[code]
          st1 == [st EXCEPT
                    !.Sales = map_remove(@, code),
                    !.Products = [k \in DOMAIN @ |->
                                    IF vec_contains(sale.products, k)
                                    THEN [@[k] EXCEPT !.stock = @ + 1]
                                    ELSE @[k]]]
      IN  Outcome(deposit_event(st1, Event("SaleRemoved", code)), "Ok", None)

remove_sale_body(st, code) ==
    IF ~contains_key(st.Sales, code)
    THEN Outcome(st, "SaleNotFound", None)
    ELSE
      LET st1 == [st EXCEPT !.Sales = map_remove(@, code)]
      IN  Outcome(deposit_event(st1, Event("SaleRemoved", code)), "Ok", None)

\* ------------------------------------------------------------- dispatching

\* what a dispatchable reads at entry: the committed storage, no event yet
Entry == Storage(Products, Sales, NextProductId, NextSaleCode, <<>>)

\* the record of a finished call
Call(op, args, out) ==
    [op |-> op, args |-> args, result |-> out.result, events |-> out.store.Events,
     key |-> out.key]

\* the sum of the amounts of the lines before position n that reference id k
RECURSIVE AmountBefore(_, _, _)
AmountBefore(lines, n, k) ==
    IF n <= 1 THEN 0
    ELSE AmountBefore(lines, n - 1, k)
         + (IF lines[n - 1].product_id = k THEN lines[n - 1].amount ELSE 0)

AmountOf(lines, k) == AmountBefore(lines, Len(lines) + 1, k)

\* the committed storage after a call, and the bookkeeping of the run
Commit(op, args, out) ==
    /\ Products' = out.store.Products
    /\ Sales' = out.store.Sales
    /\ NextProductId' = out.store.NextProductId
    /\ NextSaleCode' = out.store.NextSaleCode
    /\ last' = Call(op, args, out)
    /\ addedCount' = IF op = "add_product" /\ out.result = "Ok"
                     THEN addedCount + 1 ELSE addedCount
    /\ registeredCount' = IF op = "register_sale" /\ out.result = "Ok"
                          THEN registeredCount + 1 ELSE registeredCount
    /\ removedProducts' = IF op = "remove_product" /\ out.result = "Ok"
                          THEN removedProducts \cup {args.id} ELSE removedProducts
    /\ removedSales' = IF op = "remove_sale" /\ out.result = "Ok"
                       THEN removedSales \cup {args.code} ELSE removedSales
    /\ stockBefore' =
         CASE op = "add_product" /\ out.result = "Ok" ->
                map_insert(stockBefore, unwrap(out.key), args.stock)
           [] op \in {"update_product", "remove_product"} /\ out.result = "Ok" ->
                map_remove(stockBefore, args.id)
           [] OTHER -> stockBefore
    /\ sold' =
         CASE op = "add_product" /\ out.result = "Ok" ->
                map_insert(sold, unwrap(out.key), 0)
           [] op \in {"update_product", "remove_product"} /\ out.result = "Ok" ->
                map_remove(sold, args.id)
           [] op = "register_sale" /\ out.result = "Ok" ->
                [k \in DOMAIN sold |-> sold[k] + AmountOf(args.products, k)]
           [] OTHER -> sold

add_product(name, stock, price, amount_to_restock, restock_date, category) ==
    /\ NextProductId < MaxProducts
    /\ Commit("add_product",
              [name |-> name, stock |-> stock, price |-> price,
               amount_to_restock |-> amount_to_restock,
               restock_date |-> restock_date, category |-> category],
              with_storage_layer(Entry,
                  add_product_body(Entry, name, stock, price, amount_to_restock,
                                   restock_date, category)))

get_product(id) ==
    Commit("get_product", [id |-> id],
           with_storage_layer(Entry, get_product_body(Entry, id)))

list_products_to_restock ==
    Commit("list_products_to_restock", [none |-> None],
           with_storage_layer(Entry, list_products_to_restock_body(Entry)))

list_all_products ==
    Commit("list_all_products", [none |-> None],
           with_storage_layer(Entry, list_all_products_body(Entry)))

update_product(id, name, stock, price, amount_to_restock, restock_date, category) ==
    Commit("update_product",
           [id |-> id, name |-> name, stock |-> stock, price |-> price,
            amount_to_restock |-> amount_to_restock,
            restock_date |-> restock_date, category |-> category],
           with_storage_layer(Entry,
               update_product_body(Entry, id, name, stock, price, amount_to_restock,
                                   restock_date, category)))

remove_product(id) ==
    Commit("remove_product", [id |-> id],
           with_storage_layer(Entry, remove_product_body(Entry, id)))

register_sale(seller, products, payment_method) ==
    /\ NextSaleCode < MaxSales
    /\ Commit("register_sale",
              [seller |-> seller, products |-> products,
               payment_method |-> payment_method],
              with_storage_layer(Entry,
                  register_sale_body(Entry, seller, products, payment_method)))

get_sale(code) ==
    Commit("get_sale", [code |-> code],
           with_storage_layer(Entry, get_sale_body(Entry, code)))

list_all_sales ==
    Commit("list_all_sales", [none |-> None],
           with_storage_layer(Entry, list_all_sales_body(Entry)))

update_sale(code, seller, date, payment_method) ==
    Commit("update_sale",
           [code |-> code, seller |-> seller, date |-> date,
            payment_method |-> payment_method],
           with_storage_layer(Entry,
               update_sale_body(Entry, code, seller, date, payment_method)))

remove_sale(code) ==
    Commit("remove_sale", [code |-> code],
           with_storage_layer(Entry, remove_sale_body(Entry, code)))

\* ------------------------------------------------------------------ inputs

\* the arguments offered to add_product: two valid products that differ in
\* every field, and the first with the invalid date of tests.rs
AddInputs ==
    { [name |-> "Widget", stock |-> 2, price |-> 1, amount_to_restock |-> 1,
       restock_date |-> Date(1, 1, 2023), category |-> "Electronic"],
      [name |-> "Gadget", stock |-> 1, price |-> 2, amount_to_restock |-> 2,
       restock_date |-> Date(1, 1, 2024), category |-> "Food"],
      [name |-> "Widget", stock |-> 2, price |-> 1, amount_to_restock |-> 1,
       restock_date |-> Date(32, 10, 2012), category |-> "Electronic"] }

\* the optional fields offered to update_product: nothing, some fields, and
\* every field together with an invalid date
UpdateProductInputs ==
    { [name |-> None, stock |-> None, price |-> None, amount_to_restock |-> None,
       restock_date |-> None, category |-> None],
      [name |-> Some("Gadget"), stock |-> Some(2), price |-> None,
       amount_to_restock |-> None, restock_date |-> Some(Date(1, 1, 2024)),
       category |-> None],
      [name |-> Some("Gadget"), stock |-> Some(1), price |-> Some(2),
       amount_to_restock |-> Some(2), restock_date |-> Some(Date(1, 13, 2024)),
       category |-> Some("Food")] }

\* the seller and payment method offered to register_sale
SaleInputs ==
    { [seller |-> "Acme", payment_method |-> "Credit"] }

UpdateSaleInputs ==
    { [seller |-> None, date |-> None, payment_method |-> None],
      [seller |-> Some("Bolt"), date |-> Some(Date(1, 1, 2024)),
       payment_method |-> None],
      [seller |-> Some("Acme"), date |-> Some(Date(1, 1, 999)),
       payment_method |-> Some("Debit")] }

\* ids and codes offered to the keyed calls: every one the allocators can issue
ProductIds == 0..(MaxProducts - 1)
SaleCodes == 0..(MaxSales - 1)

Items == {ItemSale(p, a) : p \in ProductIds, a \in 1..MaxAmount}

\* the lists of at most n lines
RECURSIVE LinesUpTo(_, _)
LinesUpTo(items, n) ==
    IF n = 0 THEN {<<>>}
    ELSE LET shorter == LinesUpTo(items, n - 1)
         IN  shorter \cup {Append(l, i) : l \in {x \in shorter : Len(x) = n - 1},
                                          i \in items}

LineInputs == LinesUpTo(Items, MaxLines)

\* ------------------------------------------------------------ specification

Init ==
    /\ Products = EmptyMap
    /\ Sales = EmptyMap
    /\ NextProductId = 0
    /\ NextSaleCode = 0
    /\ last = [op |-> "none", args |-> [none |-> None], result |-> "Ok",
               events |-> <<>>, key |-> None]
    /\ addedCount = 0
    /\ registeredCount = 0
    /\ removedProducts = {}
    /\ removedSales = {}
    /\ stockBefore = EmptyMap
    /\ sold = EmptyMap

Next ==
    \/ \E a \in AddInputs :
         add_product(a.name, a.stock, a.price, a.amount_to_restock,
                     a.restock_date, a.category)
    \/ \E id \in ProductIds : get_product(id)
    \/ list_products_to_restock
    \/ list_all_products
    \/ \E id \in ProductIds, u \in UpdateProductInputs :
         update_product(id, u.name, u.stock, u.price, u.amount_to_restock,
                        u.restock_date, u.category)
    \/ \E id \in ProductIds : remove_product(id)
    \/ \E s \in SaleInputs, l \in LineInputs :
         register_sale(s.seller, l, s.payment_method)
    \/ \E code \in SaleCodes : get_sale(code)
    \/ list_all_sales
    \/ \E code \in SaleCodes, u \in UpdateSaleInputs :
         update_sale(code, u.seller, u.date, u.payment_method)
    \/ \E code \in SaleCodes : remove_sale(code)

Spec == Init /\ [][Next]_vars

\* The sale registration engine on its own: the catalog calls that prepare
\* and change stock and price, and register_sale with longer lists of lines,
\* lines of amount 0 and two sellers.
SaleEngineSellers ==
    { [seller |-> "Acme", payment_method |-> "Credit"],
      [seller |-> "Bolt", payment_method |-> "Pix"] }

SaleEngineItems == {ItemSale(p, a) : p \in ProductIds, a \in 0..MaxAmount}

SaleEngineLines == LinesUpTo(SaleEngineItems, MaxSaleLines)

NextSale ==
    \/ \E a \in AddInputs :
         add_product(a.name, a.stock, a.price, a.amount_to_restock,
                     a.restock_date, a.category)
    \/ \E id \in ProductIds, u \in UpdateProductInputs :
         update_product(id, u.name, u.stock, u.price, u.amount_to_restock,
                        u.restock_date, u.category)
    \/ \E id \in ProductIds : remove_product(id)
    \/ /\ NextSaleCode < MaxEngineSales
       /\ \E s \in SaleEngineSellers, l \in SaleEngineLines :
            register_sale(s.seller, l, s.payment_method)

SpecSale == Init /\ [][NextSale]_vars

\* Date::new on its own, applied to days and months around both ends of the
\* accepted ranges and of u8, and years around 1000
DayInputs == 0..33 \cup {255}
MonthInputs == 0..14 \cup {255}
YearInputs == {0, 1, 999, 1000, 1001, 2025}

date_new(day, month, year) ==
    /\ last' = [op |-> "Date_new",
                args |-> [day |-> day, month |-> month, year |-> year],
                result |-> IF is_some(Date_new(day, month, year))
                           THEN "Ok" ELSE "Invalid date",
                events |-> <<>>,
                key |-> Date_new(day, month, year)]
    /\ UNCHANGED <<Products, Sales, NextProductId, NextSaleCode, addedCount,
                   registeredCount, removedProducts, removedSales,
                   stockBefore, sold>>

NextDate == \E day \in DayInputs, month \in MonthInputs, year \in YearInputs :
                date_new(day, month, year)

SpecDate == Init /\ [][NextDate]_vars

\* =================================================================== claims

\* the lines of a register_sale call and what they say about a catalog
LineIds(lines) == {lines[i].product_id : i \in 1..Len(lines)}

FailedRegisterSale(l) == l.op = "register_sale" /\ l.result # "Ok"
OkRegisterSale(l) == l.op = "register_sale" /\ l.result = "Ok"

(* C1: register_sale is all-or-nothing. Whenever a register_sale call fails *)
(* (ProductNotFound, InsufficientStock or Overflow, on whichever line), the  *)
(* stock of every product, the stored sales and NextSaleCode are after the   *)
(* call what they were before it.                                            *)
C1_RegisterSaleAllOrNothing ==
    [][FailedRegisterSale(last') =>
         /\ DOMAIN Products' = DOMAIN Products
         /\ \A k \in DOMAIN Products : Products'[k].stock = Products[k].stock
         /\ Sales' = Sales
         /\ NextSaleCode' = NextSaleCode]_vars

\* a register_sale that failed on a later line, after its first line had
\* found its product, taken a positive amount from its stock and been priced
C1_FailedAfterFirstLine ==
    /\ FailedRegisterSale(last)
    /\ last.result \in {"ProductNotFound", "InsufficientStock", "Overflow"}
    /\ Len(last.args.products) >= 2
    /\ LET first == last.args.products[1]
       IN  /\ first.product_id \in DOMAIN Products
           /\ first.amount >= 1
           /\ first.amount <= Products[first.product_id].stock
           /\ Products[first.product_id].price * first.amount <= U64Max

OkAddProduct(l) == l.op = "add_product" /\ l.result = "Ok"

(* C2: allocator monotonicity. Over any sequence of calls, the k-th          *)
(* successful add_product (k counted from 0) is stored under id k and the    *)
(* k-th successful register_sale under code k; NextProductId and             *)
(* NextSaleCode never decrease; the id or code a call assigns was never      *)
(* assigned before, not even to a record that has since been removed.        *)
C2_AllocatorMonotonic ==
    [][/\ NextProductId' >= NextProductId
       /\ NextSaleCode' >= NextSaleCode
       /\ OkAddProduct(last') =>
            /\ last'.key = Some(addedCount)
            /\ addedCount \in DOMAIN Products'
            /\ Products'[addedCount].id = addedCount
            /\ addedCount \notin (DOMAIN Products) \cup removedProducts
       /\ OkRegisterSale(last') =>
            /\ last'.key = Some(registeredCount)
            /\ registeredCount \in DOMAIN Sales'
            /\ Sales'[registeredCount].code = registeredCount
            /\ registeredCount \notin (DOMAIN Sales) \cup removedSales]_vars

\* the second product is added after the first was removed, the second sale
\* was registered after the first was removed, and a call has failed since
C2_SecondAfterRemoval ==
    /\ last.result # "Ok"
    /\ addedCount = 2 /\ 0 \in removedProducts /\ DOMAIN Products = {1}
    /\ registeredCount = 2 /\ 0 \in removedSales /\ DOMAIN Sales = {1}

\* what the lines of a register_sale call ask of a catalog P, line by line
LineFound(P, lines, i) == lines[i].product_id \in DOMAIN P
Remaining(P, lines, i) ==
    P[lines[i].product_id].stock - AmountBefore(lines, i, lines[i].product_id)
LineInStock(P, lines, i) == lines[i].amount <= Remaining(P, lines, i)
Subtotal(P, lines, i) == P[lines[i].product_id].price * lines[i].amount

RECURSIVE TotalBefore(_, _, _)
TotalBefore(P, lines, n) ==
    IF n <= 1 THEN 0
    ELSE TotalBefore(P, lines, n - 1) + Subtotal(P, lines, n - 1)

LinePriced(P, lines, i) ==
    /\ Subtotal(P, lines, i) <= U64Max
    /\ TotalBefore(P, lines, i) + Subtotal(P, lines, i) <= U64Max
LineOk(P, lines, i) ==
    /\ LineFound(P, lines, i)
    /\ LineInStock(P, lines, i)
    /\ LinePriced(P, lines, i)
AllOkBefore(P, lines, i) == \A j \in 1..(i - 1) : LineOk(P, lines, j)

(* C3: lines are applied sequentially and cumulatively. A successful         *)
(* register_sale lowers the stock of each product by the sum of the amounts  *)
(* of all lines that reference it and leaves the stock of every other        *)
(* product as it was; the call fails with InsufficientStock exactly when the *)
(* line it stops at asks for more than the stock its product has left after  *)
(* the earlier lines of the same call.                                       *)
C3_LinesCumulative ==
    [][last'.op = "register_sale" =>
         LET lines == last'.args.products
         IN  /\ last'.result = "Ok" =>
                  /\ DOMAIN Products' = DOMAIN Products
                  /\ \A k \in DOMAIN Products :
                       Products'[k].stock = Products[k].stock - AmountOf(lines, k)
             /\ last'.result = "InsufficientStock" <=>
                  \E i \in 1..Len(lines) :
                     /\ AllOkBefore(Products, lines, i)
                     /\ LineFound(Products, lines, i)
                     /\ ~LineInStock(Products, lines, i)]_vars

\* two lines of amount 1 on the same product, which had stock 2, have left
\* it stock 0, and the other product keeps its stock
C3_TwoLinesSameProduct ==
    /\ OkRegisterSale(last)
    /\ Len(last.args.products) = 2
    /\ last.args.products[1] = ItemSale(0, 1)
    /\ last.args.products[2] = ItemSale(0, 1)
    /\ DOMAIN Products = {0, 1}
    /\ Products[0].stock = 0
    /\ Products[1].stock > 0

(* C4: the value stored in the sale a successful register_sale creates is    *)
(* the sum, over all input lines, of the price the referenced product had    *)
(* when the call was made times the amount of the line.                      *)
C4_SaleValue ==
    [][OkRegisterSale(last') =>
         LET lines == last'.args.products
             code == NextSaleCode
         IN  /\ code \in DOMAIN Sales'
             /\ Sales'[code].value = TotalBefore(Products, lines, Len(lines) + 1)]_vars

\* a sale of one unit of a product of price 1 and one unit of a product of
\* price 2 is stored with value 3
C4_TwoPricedLines ==
    /\ OkRegisterSale(last)
    /\ Len(last.args.products) = 2
    /\ last.args.products[1].amount = 1
    /\ last.args.products[2].amount = 1
    /\ last.args.products[1].product_id # last.args.products[2].product_id
    /\ \A k \in {0, 1} : k \in DOMAIN Products /\ Products[k].price = k + 1
    /\ Sales[unwrap(last.key)].value = 3

\* the position of the first line that references id x
FirstLineOf(lines, x) ==
    CHOOSE i \in 1..Len(lines) :
        /\ lines[i].product_id = x
        /\ \A j \in 1..(i - 1) : lines[j].product_id # x

(* C5: the products list of the sale a successful register_sale creates      *)
(* holds each product id of the input lines exactly once, in the order in    *)
(* which the ids first appear in the input, and no other id.                 *)
C5_SaleProductsFirstSeen ==
    [][OkRegisterSale(last') =>
         LET lines == last'.args.products
             sp == Sales'[NextSaleCode].products
         IN  /\ \A i, j \in 1..Len(sp) : i # j => sp[i] # sp[j]
             /\ {sp[i] : i \in 1..Len(sp)} = LineIds(lines)
             /\ \A i, j \in 1..Len(sp) :
                  i < j => FirstLineOf(lines, sp[i]) < FirstLineOf(lines, sp[j])]_vars

\* lines on products 1, 0, 1 have given the products list <<1, 0>>
C5_RepeatedProduct ==
    /\ OkRegisterSale(last)
    /\ Len(last.args.products) = 3
    /\ last.args.products[1].product_id = 1
    /\ last.args.products[2].product_id = 0
    /\ last.args.products[3].product_id = 1
    /\ Sales[unwrap(last.key)].products = <<1, 0>>

\* the validity rule of a date, as the data model states it
ValidDate(d) ==
    /\ 1 <= d.day /\ d.day <= 31
    /\ 1 <= d.month /\ d.month <= 12
    /\ d.year >= 1000

(* C6: Date::new(day, month, year) succeeds, with the date of those three    *)
(* fields, if and only if 1 <= day <= 31 and 1 <= month <= 12 and            *)
(* year >= 1000, and returns an error otherwise; day and month are not       *)
(* checked against each other.                                               *)
C6_DateNewIff ==
    last.op = "Date_new" =>
        /\ last.result = "Ok" <=> ValidDate(last.args)
        /\ last.result = "Ok" =>
             last.key = Some(Date(last.args.day, last.args.month, last.args.year))
        /\ last.result # "Ok" => last.result = "Invalid date" /\ last.key = None

\* 31 February 1000 is accepted
C6_Feb31Accepted ==
    /\ last.op = "Date_new"
    /\ last.args = [day |-> 31, month |-> 2, year |-> 1000]
    /\ last.result = "Ok"

(* C7: add_product called with an invalid restock_date fails with            *)
(* InvalidDate and changes nothing: no product is stored and NextProductId   *)
(* is not advanced. Every successful add_product stores its product under    *)
(* the value NextProductId had when it was called, and no other call moves   *)
(* NextProductId, so the next successful add_product receives the id the     *)
(* failed call would have received.                                          *)
C7_AddProductInvalidDate ==
    [][/\ (last'.op = "add_product" /\ ~ValidDate(last'.args.restock_date)) =>
            /\ last'.result = "InvalidDate"
            /\ Products' = Products
            /\ NextProductId' = NextProductId
            /\ Sales' = Sales
            /\ NextSaleCode' = NextSaleCode
       /\ OkAddProduct(last') =>
            /\ last'.key = Some(NextProductId)
            /\ NextProductId \in DOMAIN Products'
       /\ ~OkAddProduct(last') => NextProductId' = NextProductId]_vars

\* add_product has just failed on the date 32/10/2012 with one product
\* stored, and the allocator still stands at 1
C7_FailedAddProduct ==
    /\ last.op = "add_product"
    /\ last.args.restock_date = Date(32, 10, 2012)
    /\ last.result = "InvalidDate"
    /\ DOMAIN Products = {0}
    /\ NextProductId = 1

(* C8: in every reachable state list_products_to_restock reports a stored    *)
(* product if and only if its stock is strictly less than its                *)
(* amount_to_restock: a product standing at its threshold is not reported,   *)
(* every stored product below it is, and nothing else is.                    *)
C8_RestockFilter ==
    [][last'.op = "list_products_to_restock" =>
         /\ last'.result = "Ok"
         /\ Len(last'.events) = 1
         /\ last'.events[1].kind = "ProductsToRestock"
         /\ \A k \in DOMAIN Products :
              Products[k] \in last'.events[1].v
                <=> Products[k].stock < Products[k].amount_to_restock
         /\ last'.events[1].v \subseteq {Products[k] : k \in DOMAIN Products}]_vars

\* of two stored products, the one at its threshold is left out and the one
\* below its threshold is the only product reported
C8_AtAndBelowThreshold ==
    /\ last.op = "list_products_to_restock"
    /\ DOMAIN Products = {0, 1}
    /\ Products[0].stock = Products[0].amount_to_restock
    /\ Products[1].stock < Products[1].amount_to_restock
    /\ last.events[1].v = {Products[1]}

(* C9: round trip of creation. Right after a successful add_product that was *)
(* assigned id i, the product stored under i has its name, stock, price,     *)
(* amount_to_restock, restock_date and category equal to the supplied        *)
(* values and its id field equal to i.                                       *)
C9_AddProductRoundTrip ==
    OkAddProduct(last) =>
        /\ is_some(last.key)
        /\ unwrap(last.key) \in DOMAIN Products
        /\ LET p == Products[unwrap(last.key)]
           IN  /\ p.name = last.args.name
               /\ p.stock = last.args.stock
               /\ p.price = last.args.price
               /\ p.amount_to_restock = last.args.amount_to_restock
               /\ p.restock_date = last.args.restock_date
               /\ p.category = last.args.category
               /\ p.id = unwrap(last.key)

\* the second product was just added as name Gadget, stock 1, price 2,
\* threshold 2, restock date 1/1/2024, category Food, and is stored under 1
C9_GadgetAdded ==
    /\ OkAddProduct(last)
    /\ last.key = Some(1)
    /\ last.args = [name |-> "Gadget", stock |-> 1, price |-> 2,
                    amount_to_restock |-> 2, restock_date |-> Date(1, 1, 2024),
                    category |-> "Food"]
    /\ Products[1] = Product("Gadget", 1, 1, 2, 2, Date(1, 1, 2024), "Food")

(* C10: removal is permanent. Once remove_product(id) (resp.                 *)
(* remove_sale(code)) has succeeded, the key is absent in every later state: *)
(* get, update and remove on it fail with ProductNotFound (resp.             *)
(* SaleNotFound), a register_sale with a line on the removed product never   *)
(* succeeds and fails with ProductNotFound when that line is reached, and no *)
(* later add_product or register_sale stores a record under that key again.  *)
C10_RemovalPermanent ==
    [][/\ removedProducts' \cap DOMAIN Products' = {}
       /\ removedSales' \cap DOMAIN Sales' = {}
       /\ (/\ last'.op \in {"get_product", "update_product", "remove_product"}
           /\ last'.args.id \in removedProducts)
            => last'.result = "ProductNotFound"
       /\ (/\ last'.op \in {"get_sale", "update_sale", "remove_sale"}
           /\ last'.args.code \in removedSales)
            => last'.result = "SaleNotFound"
       /\ last'.op = "register_sale" =>
            LET lines == last'.args.products
            IN  \A i \in 1..Len(lines) :
                   lines[i].product_id \in removedProducts =>
                     /\ last'.result # "Ok"
                     /\ AllOkBefore(Products, lines, i) =>
                          last'.result = "ProductNotFound"]_vars

\* product 0 and sale 0 have been removed, product 1 and the allocators stay
\* beyond them, and a register_sale whose second line is on product 0, after
\* a first line that product 1 served, has failed with ProductNotFound
C10_SaleOnRemovedProduct ==
    /\ removedProducts = {0} /\ DOMAIN Products = {1} /\ NextProductId = 2
    /\ removedSales = {0} /\ DOMAIN Sales = {} /\ NextSaleCode = 1
    /\ last.op = "register_sale"
    /\ last.result = "ProductNotFound"
    /\ Len(last.args.products) = 2
    /\ last.args.products[1] = ItemSale(1, 1)
    /\ last.args.products[2].product_id = 0
    /\ Products[1].stock >= 1

\* the value a field has after an update that supplied `supplied` for it
Patched(supplied, old) == IF supplied = None THEN old ELSE supplied[1]

(* C11: a successful update_product(id, ...) overwrites exactly the fields   *)
(* that were supplied with the supplied values and leaves every field that   *)
(* was not supplied, the id field, every other product, all sales and both   *)
(* allocators unchanged; with no field supplied the stored product is        *)
(* unchanged.                                                                *)
C11_UpdateProductFrame ==
    [][(last'.op = "update_product" /\ last'.result = "Ok") =>
         LET a == last'.args
         IN  /\ a.id \in DOMAIN Products
             /\ DOMAIN Products' = DOMAIN Products
             /\ Products'[a.id] =
                  [name |-> Patched(a.name, Products[a.id].name),
                   id |-> Products[a.id].id,
                   stock |-> Patched(a.stock, Products[a.id].stock),
                   price |-> Patched(a.price, Products[a.id].price),
                   amount_to_restock |->
                       Patched(a.amount_to_restock, Products[a.id].amount_to_restock),
                   restock_date |->
                       Patched(a.restock_date, Products[a.id].restock_date),
                   category |-> Patched(a.category, Products[a.id].category)]
             /\ \A k \in DOMAIN Products : k # a.id => Products'[k] = Products[k]
             /\ (\A f \in DOMAIN a : f # "id" => a[f] = None) =>
                  Products' = Products
             /\ Sales' = Sales
             /\ NextProductId' = NextProductId
             /\ NextSaleCode' = NextSaleCode]_vars

\* product 0, added as Widget, has been given the name Gadget, stock 2 and
\* the date 1/1/2024 and keeps its price, threshold and category, next to
\* another product and a stored sale
C11_PartlyUpdated ==
    /\ last.op = "update_product" /\ last.result = "Ok" /\ last.args.id = 0
    /\ last.args.name = Some("Gadget") /\ last.args.price = None
    /\ DOMAIN Products = {0, 1}
    /\ Products[0] = [name |-> "Gadget", id |-> 0, stock |-> 2, price |-> 1,
                      amount_to_restock |-> 1, restock_date |-> Date(1, 1, 2024),
                      category |-> "Electronic"]
    /\ DOMAIN Sales # {}

(* C12: the products list, the value and the code of a stored sale never     *)
(* change between its registration and its removal, whatever calls are made  *)
(* (update_sale, update_product, remove_product, later register_sale);       *)
(* a successful update_sale changes only the seller, date and payment_method *)
(* of its sale, and of these only the ones supplied.                         *)
C12_SaleImmutableFields ==
    [][/\ \A c \in (DOMAIN Sales) \cap (DOMAIN Sales') :
            /\ Sales'[c].products = Sales[c].products
            /\ Sales'[c].value = Sales[c].value
            /\ Sales'[c].code = Sales[c].code
       /\ (last'.op = "update_sale" /\ last'.result = "Ok") =>
            LET a == last'.args
            IN  /\ a.code \in DOMAIN Sales
                /\ DOMAIN Sales' = DOMAIN Sales
                /\ Sales'[a.code] =
                     [Sales[a.code] EXCEPT
                        !.seller = Patched(a.seller, @),
                        !.date = Patched(a.date, @),
                        !.payment_method = Patched(a.payment_method, @)]
                /\ \A c \in DOMAIN Sales : c # a.code => Sales'[c] = Sales[c]]_vars

\* sale 0, registered by Acme on credit for products 0 and 1 at value 3, has
\* been given the seller Bolt and the date 1/1/2024 and keeps the rest,
\* after product 0 was removed
C12_SaleUpdated ==
    /\ last.op = "update_sale" /\ last.result = "Ok" /\ last.args.code = 0
    /\ last.args.payment_method = None
    /\ 0 \in DOMAIN Sales
    /\ Sales[0] = [seller |-> "Bolt", code |-> 0, products |-> <<0, 1>>,
                   value |-> 3, date |-> Date(1, 1, 2024),
                   payment_method |-> "Credit"]
    /\ 0 \in removedProducts

(* C13: get_product, update_product and remove_product on an id that is not  *)
(* stored fail with ProductNotFound, and get_sale, update_sale and           *)
(* remove_sale on a code that is not stored fail with SaleNotFound; in each  *)
(* case the products, the sales and both allocators are unchanged by the     *)
(* call.                                                                     *)
C13_NotFoundChangesNothing ==
    [][/\ (/\ last'.op \in {"get_product", "update_product", "remove_product"}
           /\ last'.args.id \notin DOMAIN Products)
            => /\ last'.result = "ProductNotFound"
               /\ Products' = Products /\ Sales' = Sales
               /\ NextProductId' = NextProductId /\ NextSaleCode' = NextSaleCode
       /\ (/\ last'.op \in {"get_sale", "update_sale", "remove_sale"}
           /\ last'.args.code \notin DOMAIN Sales)
            => /\ last'.result = "SaleNotFound"
               /\ Products' = Products /\ Sales' = Sales
               /\ NextProductId' = NextProductId /\ NextSaleCode' = NextSaleCode]_vars

\* remove_sale on code 1, which was never issued, has failed with
\* SaleNotFound while a product and sale 0 are stored
C13_RemoveAbsentSale ==
    /\ last.op = "remove_sale" /\ last.args.code = 1
    /\ last.result = "SaleNotFound"
    /\ NextSaleCode = 1 /\ DOMAIN Sales = {0}
    /\ DOMAIN Products # {}

(* C14: update_product on a stored product with an invalid restock_date      *)
(* supplied, and update_sale on a stored sale with an invalid date supplied, *)
(* fail with InvalidDate and leave the stored record, and all the rest of    *)
(* the storage, unchanged, whatever valid values were supplied for the other *)
(* fields in the same call.                                                  *)
C14_UpdateInvalidDate ==
    [][/\ (/\ last'.op = "update_product"
           /\ last'.args.id \in DOMAIN Products
           /\ last'.args.restock_date # None
           /\ ~ValidDate(last'.args.restock_date[1]))
            => /\ last'.result = "InvalidDate"
               /\ Products' = Products /\ Sales' = Sales
               /\ NextProductId' = NextProductId /\ NextSaleCode' = NextSaleCode
       /\ (/\ last'.op = "update_sale"
           /\ last'.args.code \in DOMAIN Sales
           /\ last'.args.date # None
           /\ ~ValidDate(last'.args.date[1]))
            => /\ last'.result = "InvalidDate"
               /\ Products' = Products /\ Sales' = Sales
               /\ NextProductId' = NextProductId /\ NextSaleCode' = NextSaleCode]_vars

\* update_product on product 0 with a new name, stock, price, threshold and
\* category and the date 1/13/2024 has failed, and product 0 is as added
C14_ProductKeptOnInvalidDate ==
    /\ last.op = "update_product" /\ last.args.id = 0
    /\ last.result = "InvalidDate"
    /\ last.args.name = Some("Gadget") /\ last.args.stock = Some(1)
    /\ last.args.price = Some(2) /\ last.args.amount_to_restock = Some(2)
    /\ last.args.restock_date = Some(Date(1, 13, 2024))
    /\ last.args.category = Some("Food")
    /\ 0 \in DOMAIN Products
    /\ Products[0] = [name |-> "Widget", id |-> 0, stock |-> 2, price |-> 1,
                      amount_to_restock |-> 1, restock_date |-> Date(1, 1, 2023),
                      category |-> "Electronic"]

\* the dispatchables, and the kind of event each one is to deposit
Dispatchables ==
    {"add_product", "get_product", "list_products_to_restock", "list_all_products",
     "update_product", "remove_product", "register_sale", "get_sale",
     "list_all_sales", "update_sale", "remove_sale"}

EventKindOf(op) ==
    CASE op = "add_product" -> "ProductAdded"
      [] op = "get_product" -> "ProductGotten"
      [] op = "list_products_to_restock" -> "ProductsToRestock"
      [] op = "list_all_products" -> "ProductsListed"
      [] op = "update_product" -> "ProductUpdated"
      [] op = "remove_product" -> "ProductRemoved"
      [] op = "register_sale" -> "SaleRegistered"
      [] op = "get_sale" -> "SaleGotten"
      [] op = "list_all_sales" -> "SalesListed"
      [] op = "update_sale" -> "SaleUpdated"
      [] op = "remove_sale" -> "SaleRemoved"

\* what the event of a successful call l is to carry, in the state after it
EventPayloadOf(l) ==
    CASE l.op \in {"add_product", "register_sale"} -> l.key[1]
      [] l.op \in {"update_product", "remove_product"} -> l.args.id
      [] l.op \in {"update_sale", "remove_sale"} -> l.args.code
      [] l.op = "get_product" -> Products[l.args.id]
      [] l.op = "get_sale" -> Sales[l.args.code]
      [] l.op = "list_all_products" -> {Products[k] : k \in DOMAIN Products}
      [] l.op = "list_products_to_restock" ->
            {Products[k] : k \in {x \in DOMAIN Products :
                Products[x].stock < Products[x].amount_to_restock}}
      [] l.op = "list_all_sales" -> {Sales[k] : k \in DOMAIN Sales}

(* C15: every call that succeeds deposits exactly one event, of the kind of  *)
(* its operation and carrying the id, code, record or list it concerns       *)
(* (ProductAdded(id), SaleRegistered(code), ProductRemoved(id), ...), and    *)
(* every call that fails deposits no event; in particular a register_sale   *)
(* that fails on any line deposits no SaleRegistered event.                  *)
C15_OneEventPerSuccess ==
    last.op \in Dispatchables =>
        IF last.result = "Ok"
        THEN /\ Len(last.events) = 1
             /\ last.events[1].kind = EventKindOf(last.op)
             /\ last.events[1].v = EventPayloadOf(last)
        ELSE last.events = <<>>

\* a register_sale whose first line was served and whose second line asked
\* for more than the stock has failed, and no event is deposited
C15_FailedSaleNoEvent ==
    /\ last.op = "register_sale" /\ last.result = "InsufficientStock"
    /\ Len(last.args.products) = 2
    /\ LineOk(Products, last.args.products, 1)
    /\ last.args.products[1].amount >= 1
    /\ last.events = <<>>
    /\ DOMAIN Sales # {}

(* C16: remove_product does not cascade. Removing a product that a stored    *)
(* sale references leaves every stored sale as it was (same seller, products *)
(* list still containing the removed id, same value), and the sale is still  *)
(* returned by get_sale; update_product on a referenced product changes no   *)
(* stored sale either.                                                       *)
C16_NoCascade ==
    [][/\ last'.op \in {"remove_product", "update_product"} => Sales' = Sales
       /\ (last'.op = "get_sale" /\ last'.args.code \in DOMAIN Sales) =>
            /\ last'.result = "Ok"
            /\ last'.events = <<Event("SaleGotten", Sales[last'.args.code])>>
            /\ Sales' = Sales]_vars

\* get_sale has returned a sale whose products list names a product that
\* was removed after the sale
C16_DanglingSaleGotten ==
    /\ last.op = "get_sale" /\ last.result = "Ok"
    /\ \E k \in removedProducts :
          /\ k \notin DOMAIN Products
          /\ vec_contains(Sales[last.args.code].products, k)
          /\ last.events[1].v.products = Sales[last.args.code].products

(* C17: calls are serializable and never jointly oversell. Every call runs   *)
(* to completion on the state the call before it left, so the state after    *)
(* any number of register_sale calls against one product is that of running  *)
(* them one after the other; and as long as update_product has not been      *)
(* applied to a product, the total amount taken from it by the sales that    *)
(* succeeded never exceeds the stock it had before them, and its stock is    *)
(* that stock less that total.                                               *)
C17_NeverOversold ==
    /\ DOMAIN sold = DOMAIN stockBefore
    /\ \A k \in DOMAIN sold :
         /\ sold[k] <= stockBefore[k]
         /\ k \in DOMAIN Products
         /\ Products[k].stock = stockBefore[k] - sold[k]

\* two sales, both stored and both on product 0 alone, have together taken
\* the whole stock product 0 was added with
C17_TwoSalesDrainStock ==
    /\ OkRegisterSale(last)
    /\ registeredCount = 2
    /\ DOMAIN Sales = {0, 1}
    /\ Sales[0].products = <<0>> /\ Sales[1].products = <<0>>
    /\ 0 \in DOMAIN sold
    /\ stockBefore[0] = 2 /\ sold[0] = 2
    /\ Products[0].stock = 0

(* C18: register_sale fails with Overflow exactly when, for some line that   *)
(* passed the product lookup and the stock check, price * amount exceeds the *)
(* u64 maximum or adding that subtotal to the running total exceeds it. The  *)
(* body has by then written the decremented stock of that line, yet after    *)
(* the failed call every product, that line's included, has the stock it had *)
(* before the call.                                                          *)
C18_OverflowExactly ==
    [][last'.op = "register_sale" =>
         LET lines == last'.args.products
             out == register_sale_body(Entry, last'.args.seller, lines,
                                       last'.args.payment_method)
         IN  /\ last'.result = "Overflow" <=>
                  \E i \in 1..Len(lines) :
                     /\ AllOkBefore(Products, lines, i)
                     /\ LineFound(Products, lines, i)
                     /\ LineInStock(Products, lines, i)
                     /\ ~LinePriced(Products, lines, i)
             /\ last'.result = "Overflow" =>
                  /\ Products' = Products
                  /\ out.result = "Overflow"
                  /\ \A i \in 1..Len(lines) :
                       (AllOkBefore(Products, lines, i) /\ ~LineOk(Products, lines, i)) =>
                          out.store.Products[lines[i].product_id].stock =
                             Products[lines[i].product_id].stock
                               - AmountBefore(lines, i + 1, lines[i].product_id)]_vars

\* two units of a product of price 1 and then one unit of a product of price
\* 2: the second line is in stock, its subtotal fits, the sum does not; both
\* products have the stock they had
C18_TotalOverflowRolledBack ==
    /\ last.op = "register_sale" /\ last.result = "Overflow"
    /\ last.args.products = <<ItemSale(0, 2), ItemSale(1, 1)>>
    /\ DOMAIN Products = {0, 1}
    /\ Products[0].price = 1 /\ Products[0].stock = 2
    /\ Products[1].price = 2 /\ Products[1].stock = 1
    /\ Sales = EmptyMap

\* the error line i of a register_sale call raises on catalog P, the checks
\* taken in the order lookup, stock, subtotal and total
LineError(P, lines, i) ==
    IF ~LineFound(P, lines, i) THEN "ProductNotFound"
    ELSE IF ~LineInStock(P, lines, i) THEN "InsufficientStock"
    ELSE IF ~LinePriced(P, lines, i) THEN "Overflow"
    ELSE "Ok"

\* the error of the first line from position i on that raises one, "Ok" if
\* none does; the lines before position i have raised none
RECURSIVE FirstError(_, _, _)
FirstError(P, lines, i) ==
    IF i > Len(lines) THEN "Ok"
    ELSE IF LineError(P, lines, i) # "Ok" THEN LineError(P, lines, i)
    ELSE FirstError(P, lines, i + 1)

(* C19: the error of a failing register_sale is decided by the first failing *)
(* line in input order, and within that line by the order lookup, stock      *)
(* check, subtotal, total: a missing product gives ProductNotFound; an       *)
(* amount that both exceeds the stock and would overflow the subtotal gives  *)
(* InsufficientStock, not Overflow; a later bad line never masks an earlier  *)
(* one. The call succeeds exactly when no line fails.                        *)
C19_FirstFailingLineDecides ==
    [][last'.op = "register_sale" =>
         last'.result = FirstError(Products, last'.args.products, 1)]_vars

\* the first line asks two units of a product of stock 1 and price 2 (more
\* than the stock, and a subtotal beyond the maximum), the second line names
\* a product that is not stored: the call has failed with InsufficientStock
C19_StockBeforeOverflow ==
    /\ last.op = "register_sale" /\ last.result = "InsufficientStock"
    /\ last.args.products = <<ItemSale(0, 2), ItemSale(1, 1)>>
    /\ DOMAIN Products = {0}
    /\ Products[0].stock = 1 /\ Products[0].price = 2
    /\ Products[0].price * 2 > U64Max

(* C20: in every reachable state the restock_date of every stored product    *)
(* and the date of every stored sale satisfy the validity rule of Date       *)
(* (1 <= day <= 31, 1 <= month <= 12, year >= 1000), whatever dates, valid   *)
(* or not, add_product, update_product and update_sale have been called      *)
(* with.                                                                     *)
C20_StoredDatesValid ==
    /\ \A k \in DOMAIN Products : ValidDate(Products[k].restock_date)
    /\ \A c \in DOMAIN Sales : ValidDate(Sales[c].date)

\* update_sale has just been refused a date of the year 999 on a stored
\* sale, whose date is still the one it was registered with, beside a product
\* whose restock_date a successful update_product has replaced
C20_Year999Refused ==
    /\ last.op = "update_sale" /\ last.result = "InvalidDate"
    /\ last.args.date = Some(Date(1, 1, 999))
    /\ last.args.code \in DOMAIN Sales
    /\ Sales[last.args.code].date = SaleDate
    /\ \E k \in DOMAIN Products :
          /\ Products[k].name = "Gadget"
          /\ Products[k].restock_date = Date(1, 1, 2024)
          /\ k \notin DOMAIN stockBefore

(* C21: remove_sale and update_sale have no effect on the product catalog.   *)
(* After either, every product (the stock the removed sale had decremented   *)
(* included) and NextProductId are what they were, so removing a sale does   *)
(* not return the sold quantity to stock; remove_sale also leaves            *)
(* NextSaleCode and every other sale as they were.                           *)
C21_SaleCallsLeaveCatalog ==
    [][/\ last'.op \in {"remove_sale", "update_sale"} =>
            /\ Products' = Products
            /\ NextProductId' = NextProductId
       /\ last'.op = "remove_sale" =>
            /\ NextSaleCode' = NextSaleCode
            /\ \A c \in (DOMAIN Sales) \ {last'.args.code} :
                  c \in DOMAIN Sales' /\ Sales'[c] = Sales[c]
            /\ DOMAIN Sales' \subseteq DOMAIN Sales]_vars

\* the sale that took both units of product 0 has been removed, the other
\* sale is still stored, and product 0 still has stock 0
C21_RemovedSaleStockNotReturned ==
    /\ last.op = "remove_sale" /\ last.result = "Ok" /\ last.args.code = 0
    /\ DOMAIN Sales = {1}
    /\ 0 \in DOMAIN sold
    /\ stockBefore[0] = 2 /\ sold[0] = 2
    /\ Products[0].stock = 0
    /\ NextSaleCode = 2

\* the dispatchables that only read
ReadCalls ==
    {"get_product", "list_all_products", "list_products_to_restock",
     "get_sale", "list_all_sales"}

(* C22: the read operations get_product, list_all_products,                  *)
(* list_products_to_restock, get_sale and list_all_sales never change stored *)
(* state: after any of them, successful or failed, the products, the sales,  *)
(* NextProductId and NextSaleCode are what they were before the call.        *)
C22_ReadsChangeNothing ==
    [][last'.op \in ReadCalls =>
         /\ Products' = Products
         /\ Sales' = Sales
         /\ NextProductId' = NextProductId
         /\ NextSaleCode' = NextSaleCode]_vars

\* get_product has returned a product, which is still stored under its id
\* beside a stored sale
C22_GottenProductStillStored ==
    /\ last.op = "get_product" /\ last.result = "Ok"
    /\ last.args.id \in DOMAIN Products
    /\ last.events = <<Event("ProductGotten", Products[last.args.id])>>
    /\ DOMAIN Sales # {}

(* C23: in every reachable state every stored product is stored under a key  *)
(* equal to its own id field and smaller than NextProductId, and every       *)
(* stored sale under a key equal to its own code field and smaller than      *)
(* NextSaleCode; hence add_product and register_sale insert under a key that *)
(* is absent and leave every record already stored in that map as it was.    *)
C23_KeysBelowAllocators ==
    [][/\ \A k \in DOMAIN Products' :
            Products'[k].id = k /\ k < NextProductId'
       /\ \A c \in DOMAIN Sales' :
            Sales'[c].code = c /\ c < NextSaleCode'
       /\ OkAddProduct(last') =>
            /\ last'.key = Some(NextProductId)
            /\ NextProductId \notin DOMAIN Products
            /\ DOMAIN Products' = (DOMAIN Products) \cup {NextProductId}
            /\ \A k \in DOMAIN Products : Products'[k] = Products[k]
       /\ OkRegisterSale(last') =>
            /\ last'.key = Some(NextSaleCode)
            /\ NextSaleCode \notin DOMAIN Sales
            /\ DOMAIN Sales' = (DOMAIN Sales) \cup {NextSaleCode}
            /\ \A c \in DOMAIN Sales : Sales'[c] = Sales[c]]_vars

\* a second product has been added under id 1 beside product 0, whose stock
\* a stored sale has lowered since it was added
C23_SecondProductBesideFirst ==
    /\ OkAddProduct(last) /\ last.key = Some(1)
    /\ DOMAIN Products = {0, 1}
    /\ Products[0].id = 0 /\ Products[1].id = 1
    /\ NextProductId = 2
    /\ 0 \in DOMAIN sold /\ sold[0] = 1
    /\ DOMAIN Sales = {0} /\ Sales[0].code = 0 /\ NextSaleCode = 1

(* C24: register_sale called with an empty list of lines succeeds: it stores *)
(* a sale with an empty products list and value 0 under the current          *)
(* NextSaleCode, advances NextSaleCode by 1, and changes no product.         *)
C24_EmptySaleSucceeds ==
    [][(last'.op = "register_sale" /\ last'.args.products = <<>>) =>
         /\ last'.result = "Ok"
         /\ DOMAIN Sales' = (DOMAIN Sales) \cup {NextSaleCode}
         /\ Sales'[NextSaleCode] =
              Sale(last'.args.seller, NextSaleCode, <<>>, 0, SaleDate,
                   last'.args.payment_method)
         /\ NextSaleCode' = NextSaleCode + 1
         /\ Products' = Products
         /\ NextProductId' = NextProductId]_vars

\* a sale without lines is stored under code 1, after a sale that took a
\* unit of product 0, whose stock is still the one that sale left
C24_EmptySaleStored ==
    /\ OkRegisterSale(last) /\ last.args.products = <<>>
    /\ last.key = Some(1)
    /\ Sales[1].products = <<>> /\ Sales[1].value = 0
    /\ NextSaleCode = 2
    /\ 0 \in DOMAIN sold /\ sold[0] = 1
    /\ Products[0].stock = stockBefore[0] - 1

====
